---- MODULE Spec2Model ----
(***************************************************************************)
(* Host loop of the 3D volumetric fluid simulator (src/main.js): start-up  *)
(* (init, main), the panel and keyboard handlers, the device-lost handler  *)
(* and the per-frame callback `frame`.                                     *)
(*                                                                         *)
(* JavaScript runs every callback to completion: main() yields only at its *)
(* `await`s, `frame` contains no await.  mainPc and framePc record where   *)
(* the two tasks stand; a handler can run only while neither is inside a   *)
(* synchronous block.                                                      *)
(*                                                                         *)
(* Numbers are fixed point: lengths and the domain ratio in 1/1000000,     *)
(* the wave amplitude and the wave phase in 1/100, sines in 1/10000.       *)
(* The MLS-MPM solver and the renderer (./mls-mpm/mls-mpm.js,              *)
(* ./render/fluidRender.js, ./common.js) are not part of src/; the model   *)
(* records the calls the host makes to them and takes the effect of reset  *)
(* and addSphere on the live particle count from spec.md section 4.1.      *)
(***************************************************************************)
EXTENDS Integers, Sequences, FiniteSets, TLC

\* ---------------------------------------------------------------- bounds

\* Frames with the moving wall running, per wall enable, in Spec.
MaxWaveTicks == 2

\* The same in SpecWave: long enough for sin(t) * amplitude to pass -0.8.
LongWaveTicks == 205

\* Frame numbers are kept modulo FrameTagMod.
FrameTagMod == 3

\* Batches of the device queue the model remembers (older ones have executed).
QueueWindow == 2

\* ------------------------------------------------------- program constants

BOX_WIDTH == 100
BOX_HEIGHT == 100
BOX_DEPTH == 100

\* let currentParticleCount = 400000
InitialParticleCount == 400000

\* addMoreParticles: const radius = 5; const numSphereParticles = 10000
SphereRadius == 5
NumSphereParticles == 10000

\* waveTime += 0.02, in 1/100
WaveStep == 2

\* let waveAmplitude = 0.40, in 1/100
InitialWaveAmplitude == 40

\* add(simState, 'substeps', 1, 4, 1) and simState = { substeps: 2 }
SubstepsMin == 1
SubstepsMax == 4
SubstepsStep == 1
InitialSubsteps == 2

\* add({amplitude}, 'amplitude', 0.0, 1.0, 0.01), in 1/100
AmplitudeMin == 0
AmplitudeMax == 100
AmplitudeStep == 1

\* Math.max(0.2, Math.min(2.0, boxWidthRatio)), in 1/1000000
RatioMin == 200000
RatioMax == 2000000

\* add(renderState, 'resolutionScale', 0.5, 2.0, 0.1), in 1/10
ScaleMin == 5
ScaleMax == 20
ScaleStep == 1

\* numParticlesMax of ./common.js: the capacity of the particle buffers.
NumParticlesMax == 415000

\* ------------------------------------------------------------ fixed point

Scale == 1000 * 1000

ToFixed(x) == x * Scale

Min(a, b) == IF a <= b THEN a ELSE b

Max(a, b) == IF a >= b THEN a ELSE b

\* 10000 * sin(k / 100), rounded, for k = 0 .. 450
SinTable == <<
    0, 100, 200, 300, 400, 500, 600, 699, 799, 899,
    998, 1098, 1197, 1296, 1395, 1494, 1593, 1692, 1790, 1889,
    1987, 2085, 2182, 2280, 2377, 2474, 2571, 2667, 2764, 2860,
    2955, 3051, 3146, 3240, 3335, 3429, 3523, 3616, 3709, 3802,
    3894, 3986, 4078, 4169, 4259, 4350, 4439, 4529, 4618, 4706,
    4794, 4882, 4969, 5055, 5141, 5227, 5312, 5396, 5480, 5564,
    5646, 5729, 5810, 5891, 5972, 6052, 6131, 6210, 6288, 6365,
    6442, 6518, 6594, 6669, 6743, 6816, 6889, 6961, 7033, 7104,
    7174, 7243, 7311, 7379, 7446, 7513, 7578, 7643, 7707, 7771,
    7833, 7895, 7956, 8016, 8076, 8134, 8192, 8249, 8305, 8360,
    8415, 8468, 8521, 8573, 8624, 8674, 8724, 8772, 8820, 8866,
    8912, 8957, 9001, 9044, 9086, 9128, 9168, 9208, 9246, 9284,
    9320, 9356, 9391, 9425, 9458, 9490, 9521, 9551, 9580, 9608,
    9636, 9662, 9687, 9711, 9735, 9757, 9779, 9799, 9819, 9837,
    9854, 9871, 9887, 9901, 9915, 9927, 9939, 9949, 9959, 9967,
    9975, 9982, 9987, 9992, 9995, 9998, 9999, 10000, 10000, 9998,
    9996, 9992, 9988, 9982, 9976, 9969, 9960, 9951, 9940, 9929,
    9917, 9903, 9889, 9874, 9857, 9840, 9822, 9802, 9782, 9761,
    9738, 9715, 9691, 9666, 9640, 9613, 9585, 9556, 9526, 9495,
    9463, 9430, 9396, 9362, 9326, 9290, 9252, 9214, 9174, 9134,
    9093, 9051, 9008, 8964, 8919, 8874, 8827, 8780, 8731, 8682,
    8632, 8581, 8529, 8477, 8423, 8369, 8314, 8258, 8201, 8143,
    8085, 8026, 7966, 7905, 7843, 7781, 7718, 7654, 7589, 7523,
    7457, 7390, 7322, 7254, 7185, 7115, 7044, 6973, 6901, 6828,
    6755, 6681, 6606, 6530, 6454, 6378, 6300, 6222, 6144, 6065,
    5985, 5904, 5823, 5742, 5660, 5577, 5494, 5410, 5325, 5240,
    5155, 5069, 4983, 4896, 4808, 4720, 4632, 4543, 4454, 4364,
    4274, 4183, 4092, 4001, 3909, 3817, 3724, 3631, 3538, 3444,
    3350, 3255, 3161, 3066, 2970, 2875, 2779, 2683, 2586, 2489,
    2392, 2295, 2198, 2100, 2002, 1904, 1806, 1708, 1609, 1510,
    1411, 1312, 1213, 1114, 1014, 915, 815, 715, 616, 516,
    416, 316, 216, 116, 16, -84, -184, -284, -384, -484,
    -584, -684, -783, -883, -982, -1082, -1181, -1281, -1380, -1479,
    -1577, -1676, -1775, -1873, -1971, -2069, -2167, -2264, -2362, -2459,
    -2555, -2652, -2748, -2844, -2940, -3035, -3131, -3225, -3320, -3414,
    -3508, -3601, -3694, -3787, -3880, -3971, -4063, -4154, -4245, -4335,
    -4425, -4515, -4604, -4692, -4780, -4868, -4955, -5042, -5128, -5213,
    -5298, -5383, -5467, -5550, -5633, -5716, -5797, -5879, -5959, -6039,
    -6119, -6197, -6276, -6353, -6430, -6506, -6582, -6657, -6731, -6805,
    -6878, -6950, -7021, -7092, -7162, -7232, -7301, -7369, -7436, -7502,
    -7568, -7633, -7697, -7761, -7823, -7885, -7946, -8007, -8066, -8125,
    -8183, -8240, -8296, -8352, -8406, -8460, -8513, -8565, -8616, -8666,
    -8716, -8764, -8812, -8859, -8905, -8950, -8994, -9037, -9080, -9121,
    -9162, -9201, -9240, -9278, -9315, -9351, -9386, -9420, -9453, -9485,
    -9516, -9546, -9576, -9604, -9631, -9658, -9683, -9708, -9731, -9754,
    -9775
>>

\* Math.sin of a phase given in 1/100, in 1/10000
Sin(t) == SinTable[t + 1]

\* ------------------------------------------------- inputs of the handlers

\* window.navigator.gpu, the adapter, the device, the canvas context and the
\* two initialize() promises: each is there (TRUE) or missing/rejected (FALSE).
Outcomes == BOOLEAN

\* event.key of a keydown event
KeyChoices == {"p", "P", "g", "G", "w"}

\* Keys used in SpecWave.
PauseKeys == {"p", "P"}

\* What the user enters in the Substeps controller, in 1/10.
SubstepsRawChoices == {-10, 14, 26, 38, 55}

\* What the user enters in the Wave Amplitude controller, in 1/100.
AmplitudeRawChoices == {100, 250}

\* The same in SpecWave.
WaveAmplitudeRawChoices == {-30, 150}

\* canvas.clientWidth and clientHeight after a window resize
ClientChoices == {<<640, 480>>, <<0, 333>>}

\* window.devicePixelRatio after a window resize, in 1/10
DprChoices == {0, 10, 25}

\* What the user enters in the Resolution Scale controller, in 1/10.
ScaleRawChoices == {3, 10, 25}

\* One input for each control where every callback is enabled together.
EventSubstepsChoices == {38}
EventAmplitudeChoices == {250}
EventLostReasons == {"destroyed"}
EventScaleChoices == {25}

\* info.reason of the device.lost promise: a reason, or none ("").
LostReasons == {"destroyed", ""}

\* ------------------------------------------------------------ pure helpers

\* String.prototype.toLowerCase on the keys above
ToLowerCase(k) ==
    IF k = "P" THEN "p" ELSE IF k = "G" THEN "g" ELSE k

\* v|0 of a value given in 1/10: truncation toward zero
ToInt32(v) ==
    IF v >= 0 THEN v \div 10 ELSE -((-v) \div 10)

\* dat.GUI's number controller configured by add(obj, prop, min, max, step):
\* the entered value is clamped into [min, max], then snapped to the step.
PanelValue(min, max, step, x) ==
    LET c == IF x < min THEN min ELSE IF x > max THEN max ELSE x
    IN  IF c % step # 0 THEN ((2 * c + step) \div (2 * step)) * step ELSE c

\* The value the Substeps controller hands to onChange, in 1/10.
\* (variant: a controller added without its range)
SubstepsPanelUnclamped(x) ==
    PanelValue(x, x, 10 * SubstepsStep, x)

SubstepsPanelValue(x) ==
    PanelValue(10 * SubstepsMin, 10 * SubstepsMax, 10 * SubstepsStep, x)

\* The value the Wave Amplitude controller hands to onChange, in 1/100.
AmplitudePanelValue(x) ==
    PanelValue(AmplitudeMin, AmplitudeMax, AmplitudeStep, x)

\* boxWidthRatio = Math.max(0.2, Math.min(2.0, boxWidthRatio))
\* (variant: the lower limit left out)
ClampRatioNoFloor(r) ==
    Min(RatioMax, r)

ClampRatio(r) ==
    Max(RatioMin, Min(RatioMax, r))

\* 1.0 + Math.sin(waveTime) * waveAmplitude
WaveRatio(t, a) ==
    Scale + Sin(t) * a

\* initBoxSize[2] * boxWidthRatio; the base depth is a whole number
ScaleDepth(base, ratio) ==
    (base \div Scale) * ratio

\* realBoxSize[2] = ...: the third component of the extent is assigned
\* (variant: the first component is assigned)
SetWidth(box, d) ==
    [box EXCEPT ![1] = d]

SetDepth(box, d) ==
    [box EXCEPT ![3] = d]

\* [BOX_WIDTH, BOX_HEIGHT, BOX_DEPTH]
BaseBoxSize ==
    <<ToFixed(BOX_WIDTH), ToFixed(BOX_HEIGHT), ToFixed(BOX_DEPTH)>>

\* addMoreParticles: centerX, centerY, centerZ
SphereCenter ==
    <<ToFixed(BOX_WIDTH) \div 2, ToFixed(BOX_HEIGHT) \div 2, ToFixed(BOX_DEPTH) \div 2>>

\* addSphere (spec.md 4.1): the number of particles actually inserted
\* (variant: no clamp to the remaining capacity)
InsertedUnclamped(live, count, cap) ==
    count

Inserted(live, count, cap) ==
    Min(count, cap - live)

\* The layout size of the canvas when the page starts.
InitialClientSize == <<640, 480>>

\* width and height of a canvas element before the page sets them
DefaultCanvasSize == <<300, 150>>

\* resizeCanvas: devicePixelRatio = Math.min(2, window.devicePixelRatio || 1);
\* canvas.width = Math.max(1, Math.floor(devicePixelRatio * canvas.clientWidth))
ResizeCanvas(client, dpr) ==
    LET r == Min(20, IF dpr = 0 THEN 10 ELSE dpr)
    IN  <<Max(1, (r * client[1]) \div 10), Max(1, (r * client[2]) \div 10)>>

\* resolutionScale onChange: Math.max(1, Math.floor(devicePixelRatio * client * s)),
\* devicePixelRatio being the window's there, s in 1/10
ScaledCanvas(client, dpr, s) ==
    <<Max(1, (dpr * client[1] * s) \div 100), Max(1, (dpr * client[2] * s) \div 100)>>

\* The value the Resolution Scale controller hands to onChange, in 1/10.
ScalePanelValue(x) ==
    PanelValue(ScaleMin, ScaleMax, ScaleStep, x)

\* The reason text of the device.lost handler
LostText(reason) ==
    IF reason # "" THEN "reason: " \o reason ELSE "unknown reason"

\* ------------------------------------------------------------------ state

VARIABLES
    mainPc,          \* where main() stands
    libsLoaded,      \* window.dat && window.Stats
    alertShown,      \* an alert() has been shown
    errorLog,        \* textContent of #error-reason
    isPaused,        \* let isPaused
    pauseBox,        \* the object { isPaused } bound to the Pause checkbox
    waveEnabled,     \* let waveEnabled
    waveTime,        \* let waveTime, in 1/100
    waveAmplitude,   \* let waveAmplitude, in 1/100
    boxWidthRatio,   \* let boxWidthRatio, in 1/1000000
    initBoxSize,     \* let initBoxSize
    realBoxSize,     \* let realBoxSize
    prevBoxSize,     \* let prevBoxSize
    simSubsteps,     \* simState.substeps, in 1/10
    simInitialized,  \* simulator.initialize() has resolved
    resetCalls,      \* calls of simulator.reset
    solverBox,       \* the extent last given to the solver, <<>> before reset
    numParticles,    \* simulator.numParticles
    setSubstepsArgs, \* the argument of the last simulator.setSubsteps call
    addSphereCalls,  \* the last simulator.addSphere call, with the live count
                     \* and the host's domain extent at the time of the call
    rafPending,      \* frame callbacks requested and not yet run
    framePc,         \* where frame() stands
    frameNo,         \* the number of the current frame, modulo FrameTagMod
    frameLog,        \* the calls of the current frame, in program order
    framePaused,     \* isPaused as read by the frame's domain update
    encoder,         \* the command encoder of the current frame
    queue,           \* frame numbers of the batches on the device queue
    lastBatch,       \* the batch submitted last
    uniformBox,      \* box_size in the render uniform buffer, <<>> before a write
    clientSize,      \* canvas.clientWidth, canvas.clientHeight
    windowDpr,       \* window.devicePixelRatio, in 1/10
    canvasSize,      \* canvas.width, canvas.height
    resizeListener,  \* the window 'resize' listener is registered
    windowRenderer,  \* window.__renderer is set
    rendererSize,    \* the size the renderer was given, <<>> before it exists
    texelSize        \* <<w, h>> when texel_size is (1/w, 1/h), <<>> before a write

startVars == <<mainPc, libsLoaded, alertShown, errorLog>>

hostVars == <<isPaused, pauseBox, waveEnabled, waveTime, waveAmplitude,
              boxWidthRatio, initBoxSize, realBoxSize, prevBoxSize, simSubsteps>>

waveVars == <<waveEnabled, waveTime, waveAmplitude, boxWidthRatio, initBoxSize,
              realBoxSize, prevBoxSize>>

solverVars == <<simInitialized, resetCalls, solverBox, numParticles,
                setSubstepsArgs, addSphereCalls>>

frameVars == <<rafPending, framePc, frameNo, frameLog, framePaused, encoder,
               queue, lastBatch, uniformBox>>

canvasVars == <<clientSize, windowDpr, canvasSize, resizeListener, windowRenderer,
                rendererSize, texelSize>>

vars == <<startVars, hostVars, solverVars, frameVars, canvasVars>>

NoEncoder == [open |-> FALSE, frame |-> 0, cmds |-> <<>>, count |-> 0]

Init ==
    /\ mainPc = "waitLibs"
    /\ libsLoaded = FALSE
    /\ alertShown = FALSE
    /\ errorLog = ""
    /\ isPaused = FALSE
    /\ pauseBox = FALSE
    /\ waveEnabled = TRUE
    /\ waveTime = 0
    /\ waveAmplitude = InitialWaveAmplitude
    /\ boxWidthRatio = Scale
    /\ initBoxSize = BaseBoxSize
    /\ realBoxSize = BaseBoxSize
    /\ prevBoxSize = BaseBoxSize
    /\ simSubsteps = 10 * InitialSubsteps
    /\ simInitialized = FALSE
    /\ resetCalls = 0
    /\ solverBox = <<>>
    /\ numParticles = 0
    /\ setSubstepsArgs = <<>>
    /\ addSphereCalls = <<>>
    /\ rafPending = 0
    /\ framePc = "idle"
    /\ frameNo = 0
    /\ frameLog = <<>>
    /\ framePaused = FALSE
    /\ encoder = NoEncoder
    /\ queue = <<>>
    /\ lastBatch = NoEncoder
    /\ uniformBox = <<>>
    /\ clientSize = InitialClientSize
    /\ windowDpr = 10
    /\ canvasSize = DefaultCanvasSize
    /\ resizeListener = FALSE
    /\ windowRenderer = FALSE
    /\ rendererSize = <<>>
    /\ texelSize = <<>>

\* --------------------------------------------------------------- start-up

\* The page's scripts finish loading.
LoadLibs ==
    /\ ~libsLoaded
    /\ libsLoaded' = TRUE
    /\ UNCHANGED <<canvasVars, mainPc, alertShown, errorLog, hostVars, solverVars, frameVars>>

\* main: while (!window.dat || !window.Stats) await ...
MainWaitLibs ==
    /\ mainPc = "waitLibs"
    /\ libsLoaded
    /\ mainPc' = "checkGpu"
    /\ UNCHANGED <<canvasVars, libsLoaded, alertShown, errorLog, hostVars, solverVars, frameVars>>

\* init: if (!navigator.gpu) { alert; throw }, then requestAdapter
InitCheckGpu ==
    /\ mainPc = "checkGpu"
    /\ \E gpu \in Outcomes :
          IF gpu
          THEN mainPc' = "awaitAdapter" /\ alertShown' = alertShown
          ELSE mainPc' = "failed" /\ alertShown' = TRUE
    /\ UNCHANGED <<canvasVars, libsLoaded, errorLog, hostVars, solverVars, frameVars>>

\* init: if (!adapter) { alert; throw }, then requestDevice
InitAdapter ==
    /\ mainPc = "awaitAdapter"
    /\ \E adapter \in Outcomes :
          IF adapter
          THEN mainPc' = "awaitDevice" /\ alertShown' = alertShown
          ELSE mainPc' = "failed" /\ alertShown' = TRUE
    /\ UNCHANGED <<canvasVars, libsLoaded, errorLog, hostVars, solverVars, frameVars>>

\* init: the device, if (!context) throw; main up to await simulator.initialize().
\* A rejected requestDevice and a missing context both end in main's empty catch.
InitDevice ==
    /\ mainPc = "awaitDevice"
    /\ \E device \in Outcomes, context \in Outcomes :
          IF device /\ context
          THEN /\ mainPc' = "awaitSimInit"
               /\ canvasSize' = ResizeCanvas(clientSize, windowDpr)
               /\ resizeListener' = TRUE
               /\ texelSize' = canvasSize'
          ELSE /\ mainPc' = "failed"
               /\ UNCHANGED <<canvasSize, resizeListener, texelSize>>
    /\ UNCHANGED <<clientSize, windowDpr, windowRenderer, rendererSize, libsLoaded, alertShown, errorLog, hostVars, solverVars, frameVars>>

\* main: await simulator.initialize(), then new FluidRenderer
MainSimInitialized ==
    /\ mainPc = "awaitSimInit"
    /\ \E ok \in Outcomes :
          IF ok
          THEN /\ mainPc' = "awaitRendererInit"
               /\ simInitialized' = TRUE
               /\ rendererSize' = canvasSize
          ELSE /\ mainPc' = "failed"
               /\ UNCHANGED <<simInitialized, rendererSize>>
    /\ UNCHANGED <<clientSize, windowDpr, canvasSize, resizeListener, windowRenderer,
                   texelSize, libsLoaded, alertShown, errorLog, hostVars, resetCalls, solverBox,
                   numParticles, setSubstepsArgs, addSphereCalls, frameVars>>

\* main: await renderer.initialize()
MainRendererInitialized ==
    /\ mainPc = "awaitRendererInit"
    /\ \E ok \in Outcomes :
          mainPc' = IF ok THEN "setup" ELSE "failed"
    /\ UNCHANGED <<canvasVars, libsLoaded, alertShown, errorLog, hostVars, solverVars, frameVars>>

\* main: the loop variables, the panel, the key and device.lost handlers
\* (variant: the first frame is scheduled without the reset)
MainSetupSkipsReset ==
    /\ mainPc = "setup"
    /\ mainPc' = "schedule"
    /\ errorLog' = ""
    /\ windowRenderer' = TRUE
    /\ UNCHANGED <<clientSize, windowDpr, canvasSize, resizeListener, rendererSize,
                   texelSize, libsLoaded, alertShown, hostVars, solverVars, frameVars>>

MainSetup ==
    /\ mainPc = "setup"
    /\ mainPc' = "reset"
    /\ isPaused' = FALSE
    /\ pauseBox' = FALSE
    /\ waveEnabled' = TRUE
    /\ waveTime' = 0
    /\ waveAmplitude' = InitialWaveAmplitude
    /\ simSubsteps' = 10 * InitialSubsteps
    /\ errorLog' = ""
    /\ windowRenderer' = TRUE
    /\ UNCHANGED <<clientSize, windowDpr, canvasSize, resizeListener, rendererSize,
                   texelSize, libsLoaded, alertShown, boxWidthRatio, initBoxSize, realBoxSize,
                   prevBoxSize, solverVars, frameVars>>

\* simulator.reset (spec.md 4.1): liveCount = particleCount, the extent is taken
SolverReset(count, box) ==
    /\ resetCalls' = resetCalls + 1
    /\ numParticles' = count
    /\ solverBox' = box

\* main: currentParticleCount, initBoxSize, realBoxSize, simulator.reset, ...
MainReset ==
    /\ mainPc = "reset"
    /\ mainPc' = "schedule"
    /\ initBoxSize' = BaseBoxSize
    /\ realBoxSize' = BaseBoxSize
    /\ prevBoxSize' = BaseBoxSize
    /\ boxWidthRatio' = Scale
    /\ SolverReset(InitialParticleCount, BaseBoxSize)
    /\ UNCHANGED <<canvasVars, libsLoaded, alertShown, errorLog, isPaused, pauseBox, waveEnabled,
                   waveTime, waveAmplitude, simSubsteps, simInitialized,
                   setSubstepsArgs, addSphereCalls, frameVars>>

\* main: requestAnimationFrame(frame)
MainSchedule ==
    /\ mainPc = "schedule"
    /\ mainPc' = "done"
    /\ rafPending' = rafPending + 1
    /\ UNCHANGED <<canvasVars, libsLoaded, alertShown, errorLog, hostVars, solverVars, framePc,
                   frameNo, frameLog, framePaused, encoder, queue, lastBatch, uniformBox>>

\* ------------------------------------------------- panel and key handlers

\* No task of the page is running: main() has returned and no frame is executing.
\* (variant: a handler may run between two steps of frame())
IdleBetweenSteps ==
    mainPc = "done"

Idle ==
    mainPc = "done" /\ framePc = "idle"

\* simulator.addSphere (spec.md 4.1): clamped to the remaining capacity
AddSphere(center, radius, count) ==
    LET n == Inserted(numParticles, count, NumParticlesMax)
    IN  /\ addSphereCalls' = <<[center |-> center, radius |-> radius,
                                count |-> count, inserted |-> n,
                                before |-> numParticles, domain |-> realBoxSize]>>
        /\ numParticles' = numParticles + n

\* function addMoreParticles()
AddMoreParticles ==
    AddSphere(SphereCenter, SphereRadius, NumSphereParticles)

\* 'Pause Simulation' checkbox: onChange((value) => { isPaused = value })
PauseCheckbox ==
    /\ Idle
    /\ LET value == ~pauseBox
       IN  /\ pauseBox' = value
           /\ isPaused' = value
    /\ UNCHANGED <<canvasVars, startVars, waveVars, simSubsteps, solverVars, frameVars>>

\* The two keydown listeners: 'p' toggles isPaused, 'g' calls addMoreParticles
KeyDown(key) ==
    /\ Idle
    /\ isPaused' = IF ToLowerCase(key) = "p" THEN ~isPaused ELSE isPaused
    /\ IF ToLowerCase(key) = "g"
       THEN AddMoreParticles
       ELSE UNCHANGED <<numParticles, addSphereCalls>>
    /\ UNCHANGED <<canvasVars, startVars, pauseBox, waveVars, simSubsteps, simInitialized,
                   resetCalls, solverBox, setSubstepsArgs, frameVars>>

\* 'Substeps' controller: onChange((v) => { simulator.setSubsteps(v|0) })
SubstepsChange(raw) ==
    /\ Idle
    /\ LET v == SubstepsPanelValue(raw)
       IN  /\ simSubsteps' = v
           /\ setSubstepsArgs' = <<ToInt32(v)>>
    /\ UNCHANGED <<canvasVars, startVars, isPaused, pauseBox, waveVars, simInitialized, resetCalls,
                   solverBox, numParticles, addSphereCalls, frameVars>>

\* 'Add 10,000 Particles' button
AddParticlesButton ==
    /\ Idle
    /\ AddMoreParticles
    /\ UNCHANGED <<canvasVars, startVars, hostVars, simInitialized, resetCalls, solverBox,
                   setSubstepsArgs, frameVars>>

\* 'Enable Moving Wall' checkbox: waveEnabled = value; if (waveEnabled) waveTime = 0
\* (variant: the phase is not reset on enabling)
WaveEnabledCheckboxNoReset ==
    /\ Idle
    /\ waveEnabled' = ~waveEnabled
    /\ UNCHANGED <<canvasVars, startVars, isPaused, pauseBox, waveTime, waveAmplitude, boxWidthRatio,
                   initBoxSize, realBoxSize, prevBoxSize, simSubsteps, solverVars,
                   frameVars>>

WaveEnabledCheckbox ==
    /\ Idle
    /\ LET value == ~waveEnabled
       IN  /\ waveEnabled' = value
           /\ waveTime' = IF value THEN 0 ELSE waveTime
    /\ UNCHANGED <<canvasVars, startVars, isPaused, pauseBox, waveAmplitude, boxWidthRatio,
                   initBoxSize, realBoxSize, prevBoxSize, simSubsteps, solverVars,
                   frameVars>>

\* 'Wave Amplitude' controller: onChange((v) => { waveAmplitude = v })
AmplitudeChange(raw) ==
    /\ Idle
    /\ waveAmplitude' = AmplitudePanelValue(raw)
    /\ UNCHANGED <<canvasVars, startVars, isPaused, pauseBox, waveEnabled, waveTime, boxWidthRatio,
                   initBoxSize, realBoxSize, prevBoxSize, simSubsteps, solverVars,
                   frameVars>>

\* device.lost.then(info => { errorLog.textContent = reason })
DeviceLost(reason) ==
    /\ Idle
    /\ errorLog = ""
    /\ errorLog' = LostText(reason)
    /\ UNCHANGED <<canvasVars, mainPc, libsLoaded, alertShown, hostVars, solverVars, frameVars>>

\* main() stands at an await or has ended, and no frame is executing.
Quiescent ==
    /\ mainPc \in {"awaitSimInit", "awaitRendererInit", "done", "failed"}
    /\ framePc = "idle"

\* renderer.resize(w, h)
RendererResize(size) ==
    rendererSize' = size

\* The window is resized (layout size client, pixel ratio dpr) and the 'resize'
\* listener runs: resizeCanvas, then if the size changed renderer.resize, when
\* window.__renderer is set, and texel_size.
ResizeEvent(client, dpr) ==
    /\ resizeListener
    /\ Quiescent
    /\ clientSize' = client
    /\ windowDpr' = dpr
    /\ canvasSize' = ResizeCanvas(client, dpr)
    /\ IF canvasSize' # canvasSize
       THEN /\ IF windowRenderer
               THEN RendererResize(canvasSize')
               ELSE UNCHANGED rendererSize
            /\ texelSize' = canvasSize'
       ELSE UNCHANGED <<rendererSize, texelSize>>
    /\ UNCHANGED <<startVars, hostVars, solverVars, frameVars, resizeListener,
                   windowRenderer>>

\* 'Resolution Scale' controller: canvas.width = w; canvas.height = h;
\* renderer.resize(w, h); texel_size
ResolutionScaleChange(raw) ==
    /\ Idle
    /\ canvasSize' = ScaledCanvas(clientSize, windowDpr, ScalePanelValue(raw))
    /\ RendererResize(canvasSize')
    /\ texelSize' = canvasSize'
    /\ UNCHANGED <<startVars, hostVars, solverVars, frameVars, clientSize, windowDpr,
                   resizeListener, windowRenderer>>

\* ------------------------------------------------------------------ frame

\* simulator.changeBoxSize(realBoxSize)
\* (variant: the new extent is not pushed)
ChangeBoxSizeSkipped(box) ==
    solverBox' = solverBox

ChangeBoxSize(box) ==
    solverBox' = box

\* if (!isPaused) { if (waveEnabled) { ... } }
\* (variant: the pause flag is not tested)
WaveAdvancesWhilePaused ==
    waveEnabled

WaveAdvances ==
    ~isPaused /\ waveEnabled

\* The commands frame() records into its encoder, in program order:
\* if (!isPaused) simulator.execute(...); renderer.execute(...)
\* (variants: the pause flag ignored; the presentation recorded first)
RecordedAlways(paused) ==
    <<"simulator.execute", "renderer.execute">>

RecordedRenderFirst(paused) ==
    (IF ~paused THEN <<"renderer.execute", "simulator.execute">>
                ELSE <<"renderer.execute">>)

Recorded(paused) ==
    (IF ~paused THEN <<"simulator.execute">> ELSE <<>>) \o <<"renderer.execute">>

\* The queue keeps its QueueWindow newest batches; the device has run the others.
\* (variant: the batch is never submitted)
EnqueueDropped(q, f) ==
    q

Enqueue(q, f) ==
    LET q1 == Append(q, f)
    IN  IF Len(q1) > QueueWindow THEN Tail(q1) ELSE q1

\* frame: camera update, the domain update and the uniform write
FrameUpdate(maxTicks) ==
    /\ Idle
    /\ rafPending > 0
    /\ WaveAdvances => waveTime < maxTicks * WaveStep
    /\ rafPending' = rafPending - 1
    /\ frameNo' = (frameNo + 1) % FrameTagMod
    /\ framePaused' = isPaused
    /\ IF WaveAdvances
       THEN /\ waveTime' = waveTime + WaveStep
            /\ boxWidthRatio' = ClampRatio(WaveRatio(waveTime', waveAmplitude))
            /\ realBoxSize' = SetDepth(realBoxSize,
                                        ScaleDepth(initBoxSize[3], boxWidthRatio'))
            /\ ChangeBoxSize(realBoxSize')
       ELSE UNCHANGED <<waveTime, boxWidthRatio, realBoxSize, solverBox>>
    /\ uniformBox' = realBoxSize'
    /\ prevBoxSize' = IF realBoxSize' # prevBoxSize THEN realBoxSize' ELSE prevBoxSize
    /\ frameLog' = (IF WaveAdvances THEN <<"changeBoxSize">> ELSE <<>>)
                   \o <<"writeBuffer">>
    /\ framePc' = "record"
    /\ UNCHANGED <<canvasVars, startVars, isPaused, pauseBox, waveEnabled, waveAmplitude,
                   initBoxSize, simSubsteps, simInitialized, resetCalls, numParticles,
                   setSubstepsArgs, addSphereCalls, encoder, queue, lastBatch>>

\* frame: createCommandEncoder, simulator.execute unless paused, renderer.execute
FrameRecord ==
    /\ mainPc = "done"
    /\ framePc = "record"
    /\ encoder' = [open |-> TRUE, frame |-> frameNo, cmds |-> Recorded(isPaused),
                   count |-> numParticles]
    /\ frameLog' = frameLog \o <<"createCommandEncoder">> \o Recorded(isPaused)
    /\ framePc' = "submit"
    /\ UNCHANGED <<canvasVars, startVars, hostVars, solverVars, rafPending, frameNo, framePaused,
                   queue, lastBatch, uniformBox>>

\* requestAnimationFrame(frame) at the end of frame()
\* (variant: the next frame is not requested)
RequestNextFrameNever(n) ==
    n

RequestNextFrame(n) ==
    n + 1

\* frame: device.queue.submit([commandEncoder.finish()]), requestAnimationFrame
FrameSubmit ==
    /\ mainPc = "done"
    /\ framePc = "submit"
    /\ queue' = Enqueue(queue, encoder.frame)
    /\ lastBatch' = [encoder EXCEPT !.open = FALSE]
    /\ encoder' = NoEncoder
    /\ frameLog' = frameLog \o <<"submit", "requestAnimationFrame">>
    /\ rafPending' = RequestNextFrame(rafPending)
    /\ framePc' = "idle"
    /\ UNCHANGED <<canvasVars, startVars, hostVars, solverVars, frameNo, framePaused, uniformBox>>

\* ---------------------------------------------------------- specifications

StartUp ==
    \/ LoadLibs
    \/ MainWaitLibs
    \/ InitCheckGpu
    \/ InitAdapter
    \/ InitDevice
    \/ MainSimInitialized
    \/ MainRendererInitialized
    \/ MainSetup
    \/ MainReset
    \/ MainSchedule

Next ==
    \/ StartUp
    \/ PauseCheckbox
    \/ \E key \in KeyChoices : KeyDown(key)
    \/ \E raw \in SubstepsRawChoices : SubstepsChange(raw)
    \/ AddParticlesButton
    \/ WaveEnabledCheckbox
    \/ \E raw \in AmplitudeRawChoices : AmplitudeChange(raw)
    \/ \E reason \in LostReasons : DeviceLost(reason)
    \/ FrameUpdate(MaxWaveTicks)
    \/ FrameRecord
    \/ FrameSubmit

Spec == Init /\ [][Next]_vars

\* The moving wall over a long run: start-up, frames, pause, wall and amplitude.
NextWave ==
    \/ StartUp
    \/ \E key \in PauseKeys : KeyDown(key)
    \/ WaveEnabledCheckbox
    \/ \E raw \in WaveAmplitudeRawChoices : AmplitudeChange(raw)
    \/ FrameUpdate(LongWaveTicks)
    \/ FrameRecord
    \/ FrameSubmit

SpecWave == Init /\ [][NextWave]_vars

\* The loop under the browser's scheduling: a requested animation-frame callback
\* is run at a next repaint, and frame() runs to its end once started.
NextLive ==
    \/ StartUp
    \/ \E key \in PauseKeys : KeyDown(key)
    \/ WaveEnabledCheckbox
    \/ \E reason \in LostReasons : DeviceLost(reason)
    \/ FrameUpdate(MaxWaveTicks)
    \/ FrameRecord
    \/ FrameSubmit

\* Every callback of the page, each with one input, between and around frames.
NextEvents ==
    \/ StartUp
    \/ PauseCheckbox
    \/ \E key \in PauseKeys : KeyDown(key)
    \/ \E raw \in EventSubstepsChoices : SubstepsChange(raw)
    \/ AddParticlesButton
    \/ WaveEnabledCheckbox
    \/ \E raw \in EventAmplitudeChoices : AmplitudeChange(raw)
    \/ \E reason \in EventLostReasons : DeviceLost(reason)
    \/ \E client \in ClientChoices : ResizeEvent(client, windowDpr)
    \/ \E raw \in EventScaleChoices : ResolutionScaleChange(raw)
    \/ FrameUpdate(MaxWaveTicks)
    \/ FrameRecord
    \/ FrameSubmit

SpecEvents == Init /\ [][NextEvents]_vars

\* The canvas: start-up, window resizes, the resolution scale, frames.
NextResize ==
    \/ StartUp
    \/ \E client \in ClientChoices, dpr \in DprChoices : ResizeEvent(client, dpr)
    \/ \E raw \in ScaleRawChoices : ResolutionScaleChange(raw)
    \/ \E key \in PauseKeys : KeyDown(key)
    \/ FrameUpdate(MaxWaveTicks)
    \/ FrameRecord
    \/ FrameSubmit

SpecResize == Init /\ [][NextResize]_vars

SpecLive ==
    /\ Init
    /\ [][NextLive]_vars
    /\ WF_vars(FrameUpdate(MaxWaveTicks))
    /\ WF_vars(FrameRecord)
    /\ WF_vars(FrameSubmit)

\* ------------------------------------------------- vocabulary of the claims

Count(x, s) ==
    Cardinality({i \in 1..Len(s) : s[i] = x})

Last(s) ==
    s[Len(s)]

\* frame() has run to its end at least once and no frame is executing.
FrameDone ==
    framePc = "idle" /\ frameLog # <<>>

\* The commands among the calls of a frame.
IsCommand(e) ==
    e \in {"simulator.execute", "renderer.execute"}

\* The four events of the per-frame control flow among the calls of a frame.
IsFlowEvent(e) ==
    e \in {"changeBoxSize", "simulator.execute", "renderer.execute", "submit"}

PrevFrame(f) ==
    (f + FrameTagMod - 1) % FrameTagMod

\* ----------------------------------------------------------------- claims

\* C1: a frame run while isPaused is set records no simulator.execute, still
\* records renderer.execute and still submits its batch; a frame run while
\* isPaused is clear records simulator.execute exactly once.
C1_PauseSemantics ==
    /\ framePc = "submit" =>
          /\ encoder.open
          /\ Count("simulator.execute", encoder.cmds) = (IF isPaused THEN 0 ELSE 1)
          /\ Count("renderer.execute", encoder.cmds) = 1
    /\ FrameDone =>
          /\ Count("simulator.execute", lastBatch.cmds) = (IF framePaused THEN 0 ELSE 1)
          /\ Count("renderer.execute", lastBatch.cmds) = 1
          /\ Count("simulator.execute", frameLog) = (IF framePaused THEN 0 ELSE 1)
          /\ Count("submit", frameLog) = 1
          /\ queue # <<>>
          /\ Last(queue) = lastBatch.frame

\* C1 witness: a frame that ran while paused (after a 'p' key, the checkbox still
\* clear) has submitted a batch holding the presentation alone.
C1_Witness ==
    /\ FrameDone
    /\ framePaused
    /\ ~pauseBox
    /\ lastBatch.cmds = <<"renderer.execute">>
    /\ Last(queue) = frameNo

\* C2: every frame creates one encoder and submits once, the batch holds exactly
\* the commands recorded in that frame, the previous frame's batch is on the
\* queue before the next frame records anything, and the queue is in frame order.
C2_OneBatchPerFrame ==
    /\ FrameDone =>
          /\ Count("createCommandEncoder", frameLog) = 1
          /\ Count("submit", frameLog) = 1
          /\ ~encoder.open
          /\ lastBatch.frame = frameNo
          /\ lastBatch.cmds = SelectSeq(frameLog, IsCommand)
          /\ queue # <<>>
          /\ Last(queue) = frameNo
    /\ framePc = "record" =>
          /\ ~encoder.open
          /\ queue # <<>> => Last(queue) = PrevFrame(frameNo)
    /\ framePc = "submit" =>
          /\ encoder.open
          /\ encoder.frame = frameNo
          /\ encoder.cmds = SelectSeq(frameLog, IsCommand)
          /\ Count("submit", frameLog) = 0
          /\ queue # <<>> => Last(queue) = PrevFrame(frameNo)
    /\ \A i \in 1..(Len(queue) - 1) : queue[i] = PrevFrame(queue[i + 1])

\* C2 witness: a second frame has recorded its commands while the first frame's
\* batch is already on the queue.
C2_Witness ==
    /\ framePc = "submit"
    /\ encoder.open
    /\ queue # <<>>
    /\ Last(queue) = PrevFrame(encoder.frame)
    /\ lastBatch.cmds # encoder.cmds

\* C3 as stated: in every unpaused frame the boundary controller pushes the new
\* extent, then the solver is recorded, then the presentation, then the batch is
\* submitted.
C3_Original ==
    (FrameDone /\ ~framePaused) =>
        SelectSeq(frameLog, IsFlowEvent) =
            <<"changeBoxSize", "simulator.execute", "renderer.execute", "submit">>

\* C3 amended: an unpaused frame with the moving wall enabled has the four events
\* in that order; an unpaused frame with the wall disabled pushes no extent and
\* has the other three in order; no frame has the presentation before the solver
\* or a push after the solver.
C3_FrameOrder ==
    /\ (framePc = "submit" /\ ~isPaused) =>
          SelectSeq(frameLog, IsFlowEvent) =
              (IF waveEnabled THEN <<"changeBoxSize">> ELSE <<>>)
              \o <<"simulator.execute", "renderer.execute">>
    /\ (FrameDone /\ ~framePaused) =>
          SelectSeq(frameLog, IsFlowEvent) \in
              { <<"changeBoxSize", "simulator.execute", "renderer.execute", "submit">>,
                <<"simulator.execute", "renderer.execute", "submit">> }
    /\ \A i, j \in 1..Len(frameLog) :
          /\ (frameLog[i] = "renderer.execute" /\ frameLog[j] = "simulator.execute")
                => j < i
          /\ (frameLog[i] = "simulator.execute" /\ frameLog[j] = "changeBoxSize")
                => j < i

\* C3 witness: an unpaused frame with the wall enabled has run all four events.
C3_Witness ==
    /\ FrameDone
    /\ ~framePaused
    /\ SelectSeq(frameLog, IsFlowEvent) =
          <<"changeBoxSize", "simulator.execute", "renderer.execute", "submit">>

\* baseDepth * (1 + sin(t) * amplitude), clamped to [0.2, 2.0] x baseDepth, for a
\* base depth of 100: the formula of spec.md section 6.
C4_Depth(t, a) ==
    LET r == 1000000 + Sin(t) * a
    IN  IF r < 200000 THEN 20000000
        ELSE IF r > 2000000 THEN 200000000
        ELSE 100 * r

\* C4 as stated: in every reachable state the depth of the host's domain extent
\* is the formula at the current wave phase and amplitude.
C4_Original ==
    realBoxSize[3] = C4_Depth(waveTime, waveAmplitude)

\* C4 amended: every depth pushed to the solver is the formula at the phase and
\* amplitude of the pushing frame; the depth held by the host and the depth the
\* solver was given lie between 20 and 200 in every state.
C4_DepthBound ==
    /\ (framePc = "record" /\ frameLog[1] = "changeBoxSize") =>
          /\ realBoxSize[3] = C4_Depth(waveTime, waveAmplitude)
          /\ solverBox[3] = C4_Depth(waveTime, waveAmplitude)
    /\ realBoxSize[3] >= 20000000
    /\ realBoxSize[3] <= 200000000
    /\ solverBox # <<>> => (solverBox[3] >= 20000000 /\ solverBox[3] <= 200000000)
    /\ waveAmplitude \in 0..100

\* C4 witness: a frame has pushed the depth 20, the unclamped ratio being below 0.2.
C4_Witness ==
    /\ framePc = "record"
    /\ frameLog[1] = "changeBoxSize"
    /\ 1000000 + Sin(waveTime) * waveAmplitude < 200000
    /\ solverBox[3] = 20000000

\* C5: every inject trigger calls addSphere with count 10,000 and radius 5,
\* centred at half of the domain extent in effect at the time of the trigger.
C5_InjectAtDomainCenter ==
    addSphereCalls # <<>> =>
        /\ addSphereCalls[1].count = 10000
        /\ addSphereCalls[1].radius = 5
        /\ \A i \in 1..3 : 2 * addSphereCalls[1].center[i] = addSphereCalls[1].domain[i]

\* C6: 0 <= liveCount <= capacity; addSphere of count c at liveCount L inserts
\* min(c, capacity - L) particles; the count handed to the presentation stage
\* never exceeds the capacity.
C6_CapacityInvariant ==
    /\ numParticles >= 0
    /\ numParticles <= NumParticlesMax
    /\ addSphereCalls # <<>> =>
          LET call == addSphereCalls[1]
              room == NumParticlesMax - call.before
          IN  /\ call.inserted = (IF call.count <= room THEN call.count ELSE room)
              /\ numParticles = call.before + call.inserted
    /\ encoder.count <= NumParticlesMax
    /\ lastBatch.count <= NumParticlesMax

\* C6 witness: an inject trigger at 410,000 live particles inserted the 5,000 that
\* fit, and a frame handed the full buffer to the presentation stage.
C6_Witness ==
    /\ addSphereCalls # <<>>
    /\ addSphereCalls[1].before = 410000
    /\ addSphereCalls[1].inserted = 5000
    /\ numParticles = NumParticlesMax
    /\ lastBatch.count = NumParticlesMax

\* A fatal error: main() ended in its catch, or the device loss was reported.
Fatal ==
    mainPc = "failed" \/ errorLog # ""

\* C7: after any fatal error a failure indicator is displayed and the host
\* issues no further frame batch.
C7_FatalStopsFrames ==
    /\ [](Fatal => (alertShown \/ errorLog # ""))
    /\ [][Fatal => queue' = queue]_vars

\* C8: the solver is initialized and then reset (400,000 particles, base extent)
\* exactly once before the first frame is scheduled; nothing is executed or
\* pushed before the reset, and reset is not called again.
C8_SessionStart ==
    /\ resetCalls <= 1
    /\ resetCalls = 1 => simInitialized
    /\ mainPc = "schedule" =>
          /\ resetCalls = 1
          /\ numParticles = 400000
          /\ solverBox = <<100000000, 100000000, 100000000>>
          /\ rafPending = 0
    /\ (rafPending > 0 \/ framePc # "idle" \/ frameLog # <<>> \/ queue # <<>>) =>
          (simInitialized /\ resetCalls = 1)
    /\ mainPc = "done" => resetCalls = 1

\* C8 witness: frames have run, after the one reset.
C8_Witness ==
    /\ FrameDone
    /\ resetCalls = 1
    /\ Len(queue) >= 2

\* C9: every value passed to setSubsteps is an integer n with 1 <= n <= 4.
C9_SubstepRange ==
    setSubstepsArgs # <<>> => setSubstepsArgs[1] \in 1..4

\* C9 witness: the Substeps controller was moved beyond its maximum and
\* setSubsteps was called with 4.
C9_Witness ==
    setSubstepsArgs = <<4>> /\ simSubsteps = 40

\* C10: in every frame the extent last given to the solver equals the host's
\* extent, which is the box_size that frame writes to the uniform block.
C10_DomainAgreement ==
    /\ resetCalls = 1 => solverBox = realBoxSize
    /\ (framePc # "idle" \/ FrameDone) => uniformBox = realBoxSize

\* C10 witness: a paused frame runs after the moving wall has changed the depth.
C10_Witness ==
    /\ framePc = "record"
    /\ framePaused
    /\ realBoxSize[3] # 100000000
    /\ solverBox = realBoxSize
    /\ uniformBox = realBoxSize

\* The moving wall has run the MaxWaveTicks frames the model follows.
AtTickBound ==
    WaveAdvances /\ waveTime >= MaxWaveTicks * WaveStep

\* C11: every frame requests exactly one successor, as its last call and with
\* its batch still on the queue, whatever the pause flag, the wall flag or a
\* reported device loss; at most one callback is pending; once the first frame
\* is scheduled a frame is always pending or running, and under fair scheduling
\* another frame is submitted (as long as the wall has ticks left in the model).
C11_ContinuousLoop ==
    /\ [](/\ rafPending <= 1
          /\ mainPc = "done" =>
                rafPending + (IF framePc # "idle" THEN 1 ELSE 0) = 1
          /\ FrameDone =>
                /\ Count("requestAnimationFrame", frameLog) = 1
                /\ Last(frameLog) = "requestAnimationFrame"
                /\ rafPending = 1
                /\ queue # <<>>
                /\ Last(queue) = frameNo)
    /\ (mainPc = "done") ~> (framePc = "submit" \/ AtTickBound)

\* C11 witness: a paused frame run after a reported device loss, the wall
\* disabled, has requested its successor.
C11_Witness ==
    /\ FrameDone
    /\ framePaused
    /\ ~waveEnabled
    /\ errorLog # ""
    /\ rafPending = 1
    /\ Len(queue) >= 2

\* C12: the width and height of the host's extent and of every extent given to
\* the solver stay 100 and 100; only the depth is written, and the base extent
\* the depth is computed from is never modified.
C12_OnlyDepthMoves ==
    /\ realBoxSize[1] = 100000000
    /\ realBoxSize[2] = 100000000
    /\ initBoxSize = <<100000000, 100000000, 100000000>>
    /\ solverBox # <<>> => (solverBox[1] = 100000000 /\ solverBox[2] = 100000000)
    /\ uniformBox # <<>> => (uniformBox[1] = 100000000 /\ uniformBox[2] = 100000000)

\* C12 witness: the moving wall has changed the depth given to the solver.
C12_Witness ==
    /\ solverBox # <<>>
    /\ solverBox[3] # 100000000
    /\ solverBox[1] = 100000000
    /\ solverBox[2] = 100000000
    /\ realBoxSize = solverBox

\* The calls of the current frame include e.
Called(e) ==
    \E i \in 1..Len(frameLog) : frameLog[i] = e

\* C13: no control callback runs between the start of a frame and its submit,
\* so the frame's domain update and its solver execute read the same pause
\* flag: a frame that pushes a new extent also records the solver, and a frame
\* that skipped the domain update because of pause does not record the solver.
C13_FrameAtomicity ==
    /\ [](/\ framePc # "idle" => isPaused = framePaused
          /\ (framePc = "submit" \/ FrameDone) =>
                /\ Called("changeBoxSize") => Called("simulator.execute")
                /\ framePaused => ~Called("simulator.execute"))
    /\ [][framePc # "idle" =>
             UNCHANGED <<isPaused, pauseBox, waveEnabled, waveAmplitude, simSubsteps,
                         setSubstepsArgs, addSphereCalls, numParticles, errorLog,
                         clientSize, canvasSize, rendererSize, texelSize>>]_vars

\* C13 witness: after the pause flag was set and cleared again, a frame has
\* pushed a new extent and recorded the solver.
C13_Witness ==
    /\ framePc = "submit"
    /\ ~framePaused
    /\ pauseBox
    /\ ~isPaused
    /\ Called("changeBoxSize")
    /\ Called("simulator.execute")

\* C14: after any sequence of 'p' keys and changes of the Pause checkbox, the
\* pause flag read by the frame loop equals the value the checkbox shows (the
\* value of the object the checkbox is bound to, which gui.updateDisplay() reads).
C14_PauseControlConsistency ==
    isPaused = pauseBox

\* C15: a frame run while paused leaves the wave phase, the domain ratio and the
\* domain extent unchanged and does not call changeBoxSize, and still writes the
\* uniform block with box_size; a frame run with the moving wall disabled leaves
\* the wave phase and the domain extent unchanged.
C15_PausedFramesLeaveInputs ==
    /\ [][(framePc = "idle" /\ framePc' = "record") =>
             /\ uniformBox' = realBoxSize'
             /\ frameLog'[Len(frameLog')] = "writeBuffer"
             /\ isPaused =>
                   /\ UNCHANGED <<waveTime, boxWidthRatio, realBoxSize, solverBox>>
                   /\ frameLog' = <<"writeBuffer">>
             /\ ~waveEnabled =>
                   /\ UNCHANGED <<waveTime, realBoxSize, solverBox>>
                   /\ frameLog' = <<"writeBuffer">>]_vars
    /\ [][framePc # "idle" =>
             UNCHANGED <<waveTime, boxWidthRatio, realBoxSize, solverBox, uniformBox>>]_vars
    /\ [](FrameDone =>
             /\ Called("writeBuffer")
             /\ framePaused => ~Called("changeBoxSize"))

\* C15 witness: a paused frame, the wall enabled and the depth off its base
\* value, has written the uniform block and nothing else.
C15_Witness ==
    /\ framePc = "record"
    /\ framePaused
    /\ waveEnabled
    /\ waveTime > 0
    /\ realBoxSize[3] # 100000000
    /\ frameLog = <<"writeBuffer">>
    /\ uniformBox = realBoxSize

\* C16: the wave phase starts at 0, grows by 0.02 in each frame that runs
\* unpaused with the moving wall enabled, is reset to 0 when the wall is enabled
\* (also while paused) and changes at no other step; disabling the wall leaves
\* the extent at its current depth; the first depth pushed after enabling is
\* 100 * (1 + sin(0.02) * amplitude), with sin(0.02) = 0.0200.
C16_WavePhaseAccounting ==
    /\ [][IF framePc = "idle" /\ framePc' = "record" /\ ~isPaused /\ waveEnabled
          THEN waveTime' = waveTime + 2
          ELSE IF ~waveEnabled /\ waveEnabled'
          THEN waveTime' = 0
          ELSE waveTime' = waveTime]_vars
    /\ [][waveEnabled' # waveEnabled =>
             UNCHANGED <<realBoxSize, solverBox, boxWidthRatio>>]_vars
    /\ []((framePc = "record" /\ Called("changeBoxSize") /\ waveTime = 2) =>
             /\ realBoxSize[3] = 100 * (1000000 + 200 * waveAmplitude)
             /\ solverBox[3] = 100 * (1000000 + 200 * waveAmplitude))
    /\ [](waveTime % 2 = 0 /\ waveTime >= 0)

\* C16 witness: the wall was disabled at the depth 20 and enabled again while
\* paused: the phase is 0 and the extent still has the depth 20.
C16_Witness ==
    /\ Idle
    /\ isPaused
    /\ waveEnabled
    /\ waveTime = 0
    /\ realBoxSize[3] = 20000000
    /\ solverBox[3] = 20000000

\* The renderer exists and was given the present size of the canvas.
RendererToldCanvasSize ==
    rendererSize = canvasSize

\* texel_size, once written, is (1/canvas.width, 1/canvas.height), both >= 1.
TexelSizeTracksCanvas ==
    texelSize # <<>> =>
        /\ texelSize = canvasSize
        /\ canvasSize[1] >= 1
        /\ canvasSize[2] >= 1

\* C17: whenever a frame is rendered the renderer has been given the present
\* canvas size, also after a window resize delivered while the renderer's
\* initialization was pending; and texel_size is always (1/width, 1/height) of
\* the canvas with both dimensions at least 1.
C17_RendererSizeTracking ==
    /\ (framePc = "submit" => RendererToldCanvasSize)
    /\ TexelSizeTracksCanvas

====
